---- MODULE Spec2Model ----
(***************************************************************************)
(* Vacuum conductance design tool (src/app.py).                            *)
(*                                                                         *)
(* The program is a Streamlit script: every interaction reruns the script  *)
(* top to bottom.  The sidebar widgets give the gas state, from which the  *)
(* module-level v_avg is derived; each of the four tabs has its own input  *)
(* widgets and one button whose handler computes a result and shows it.    *)
(*                                                                         *)
(* Numbers.  The code computes in IEEE doubles.  The model computes in     *)
(* exact rational arithmetic: a rational is a sign, a numerator, a         *)
(* denominator and a power of the base, the two naturals of unbounded      *)
(* size kept as little-endian sequences of limbs in base 1000 (TLC's       *)
(* integers are 32 bits wide).  Rounding error of the doubles (about       *)
(* 1e-16 relative per operation) is therefore not modelled; overflow and   *)
(* underflow do not occur for the magnitudes the inputs below produce.     *)
(* np.sqrt is modelled by the square root rounded down to three decimals,  *)
(* and the f-string formats by decimal rounding.                           *)
(*                                                                         *)
(* A local of the code that is used more than once is a parameter of an    *)
(* operator here rather than a LET definition, so that TLC computes it     *)
(* once.                                                                   *)
(***************************************************************************)
EXTENDS Integers, Sequences, FiniteSets, Bags, TLC

VARIABLES gas, v_avg, tab, form, out, call, prev

vars == <<gas, v_avg, tab, form, out, call, prev>>

-----------------------------------------------------------------------------
(* Naturals of unbounded size: <<l1, l2, ...>> is l1 + l2*Base + ...       *)

Base == 10 * 10 * 10

Max(a, b) == IF a > b THEN a ELSE b
Min(a, b) == IF a < b THEN a ELSE b

(* Carry propagation over a sequence of (possibly negative or over-large)  *)
(* limbs: the digits of the low Len(c) places and what spills over.        *)
RECURSIVE NormB(_)
NormB(c) ==
  IF Len(c) = 1 THEN [d |-> <<c[1] % Base>>, s |-> c[1] \div Base]
  ELSE LET h  == Len(c) \div 2
           lo == NormB(SubSeq(c, 1, h))
           hi == NormB([i \in 1..(Len(c) - h) |->
                           IF i = 1 THEN c[h + 1] + lo.s ELSE c[h + i]])
       IN [d |-> lo.d \o hi.d, s |-> hi.s]

RECURSIVE Trim(_)
Trim(a) == IF Len(a) > 1 /\ a[Len(a)] = 0
           THEN Trim(SubSeq(a, 1, Len(a) - 1)) ELSE a

(* The natural a sequence of non-negative limb sums stands for.            *)
Spill(r) == Trim(r.d \o <<r.s % Base, (r.s \div Base) % Base,
                          r.s \div (Base * Base)>>)
Carry(c) == Spill(NormB(c))

Limb(a, i) == IF i <= Len(a) THEN a[i] ELSE 0

BZero(a) == \A i \in 1..Len(a) : a[i] = 0

BAdd(a, b) == Carry([i \in 1..Max(Len(a), Len(b)) |-> Limb(a, i) + Limb(b, i)])

(* a - b as limbs and a borrow: s = -1 when a < b.                         *)
BDiff(a, b) == NormB([i \in 1..Max(Len(a), Len(b)) |-> Limb(a, i) - Limb(b, i)])

(* -1, 0, 1 as a < b, a = b, a > b (a and b trimmed).                      *)
DiffSign(r) == IF r.s < 0 THEN -1 ELSE IF BZero(r.d) THEN 0 ELSE 1
BCmp(a, b) ==
  IF Len(a) < Len(b) THEN -1
  ELSE IF Len(a) > Len(b) THEN 1
  ELSE DiffSign(BDiff(a, b))

(* a - b for a >= b.                                                       *)
BSub(a, b) == Trim(BDiff(a, b).d)

(* Schoolbook product: coefficient k is the sum of a[i]*b[k-i+1]; the sum  *)
(* is taken as the cardinality of a bag holding a[i]*b[k-i+1]+1 copies of  *)
(* i (a bag's counts are positive).                                        *)
BMul(a, b) ==
  IF a = <<1>> THEN b
  ELSE IF b = <<1>> THEN a
  ELSE LET m == Len(a)
           n == Len(b)
           Coef(k) == LET lo == Max(1, k - n + 1)
                          hi == Min(m, k)
                      IN BagCardinality([i \in lo..hi |-> a[i] * b[k - i + 1] + 1])
                           - (hi - lo + 1)
       IN Carry([k \in 1..(m + n - 1) |-> Coef(k)])

(* A natural below Base^3 as limbs.                                        *)
BNat(k) == Trim(<<k % Base, (k \div Base) % Base, k \div (Base * Base)>>)

(* a * Base^k.                                                             *)
Shift(a, k) == IF k = 0 \/ BZero(a) THEN a ELSE [i \in 1..k |-> 0] \o a

(* The number of low zero limbs of a # 0.                                  *)
RECURSIVE LowZeros(_, _)
LowZeros(a, k) == IF k < Len(a) /\ a[k + 1] = 0 THEN LowZeros(a, k + 1) ELSE k

-----------------------------------------------------------------------------
(* Rationals: [neg, n, d, e] is (-1)^neg * n / (d * Base^e), with d > 0,   *)
(* e an integer, and no low zero limb in n or d (zero is 0/1, e = 0).      *)

RZero == [neg |-> FALSE, n |-> <<0>>, d |-> <<1>>, e |-> 0]

Canon(neg, n, d, e) ==
  IF BZero(n) THEN RZero
  ELSE LET zn == LowZeros(n, 0)
           zd == LowZeros(d, 0)
       IN [neg |-> neg, n |-> SubSeq(n, zn + 1, Len(n)),
           d |-> SubSeq(d, zd + 1, Len(d)), e |-> e - zn + zd]

(* k * 10^(-dec) for an integer |k| < 10^7 and dec >= 0.                   *)
Rat(k, dec) ==
  LET e   == (dec + 2) \div 3
      pad == 3 * e - dec
  IN Canon(k < 0, BNat((IF k < 0 THEN -k ELSE k)
                         * (IF pad = 2 THEN 100 ELSE IF pad = 1 THEN 10 ELSE 1)),
           <<1>>, e)
RInt(k) == Rat(k, 0)

RSign(a) == IF BZero(a.n) THEN 0 ELSE IF a.neg THEN -1 ELSE 1
RNeg(a)  == IF BZero(a.n) THEN a ELSE [a EXCEPT !.neg = ~a.neg]
RAbs(a)  == [a EXCEPT !.neg = FALSE]

RMul(a, b) == Canon(a.neg # b.neg, BMul(a.n, b.n), BMul(a.d, b.d), a.e + b.e)
(* 1 / a for a # 0.                                                        *)
RInv(a)    == [neg |-> a.neg, n |-> a.d, d |-> a.n, e |-> -a.e]
RDiv(a, b) == RMul(a, RInv(b))

(* The numerators of a and b over the common denominator                   *)
(* a.d * b.d * Base^max(a.e, b.e).                                         *)
Aligned(a, b) ==
  LET e == Max(a.e, b.e)
  IN [x |-> Shift(BMul(a.n, b.d), e - a.e), y |-> Shift(BMul(b.n, a.d), e - b.e), e |-> e]

(* The sum of the aligned numerators al of two rationals with signs na    *)
(* and nb, over the denominator d.                                         *)
Signed(neg, r, d, e) ==
  IF r.s < 0 THEN Canon(~neg, Trim(NormB([i \in 1..Len(r.d) |-> -r.d[i]]).d), d, e)
  ELSE Canon(neg, Trim(r.d), d, e)
AddAligned(na, nb, al, d) ==
  IF na = nb THEN Canon(na, BAdd(al.x, al.y), d, al.e)
  ELSE Signed(na, BDiff(al.x, al.y), d, al.e)
RAdd(a, b) == AddAligned(a.neg, b.neg, Aligned(a, b), BMul(a.d, b.d))
RSub(a, b) == RAdd(a, RNeg(b))

AlignedCmp(al) == BCmp(al.x, al.y)

(* -1, 0, 1 as a < b, a = b, a > b.                                        *)
RCmp(a, b) ==
  LET sa == RSign(a)
      sb == RSign(b)
  IN IF sa # sb THEN (IF sa < sb THEN -1 ELSE 1)
     ELSE IF sa = 0 THEN 0
     ELSE sa * AlignedCmp(Aligned(a, b))

RLt(a, b) == RCmp(a, b) < 0
RLe(a, b) == RCmp(a, b) <= 0
REq(a, b) == RCmp(a, b) = 0

-----------------------------------------------------------------------------
(* Sidebar: constants and settings (src/app.py 12-26).                     *)

(* np.pi, the double nearest to pi: 3.141592653589793                      *)
Pi == [neg |-> FALSE, n |-> <<793, 589, 653, 592, 141, 3>>, d |-> <<1>>, e |-> 5]

R_gas == Rat(8314, 3)

(* The sidebar's five number inputs.  Each entry is a gas state the data   *)
(* model allows (T > 0, M > 0, viscosity > 0, pressures >= 0): the         *)
(* widget defaults, then no average pressure, no differential pressure,    *)
(* a hotter gas, a lighter and thinner gas (N2).                           *)
GasTab ==
  << [T |-> Rat(2930, 1), P_avg |-> Rat(11, 1), Delta_P |-> Rat(18, 1),
      M_val |-> Rat(709, 1), mu_val |-> Rat(132, 2)],
     [T |-> Rat(2930, 1), P_avg |-> Rat(0, 0),  Delta_P |-> Rat(18, 1),
      M_val |-> Rat(709, 1), mu_val |-> Rat(132, 2)],
     [T |-> Rat(2930, 1), P_avg |-> Rat(11, 1), Delta_P |-> Rat(0, 0),
      M_val |-> Rat(709, 1), mu_val |-> Rat(132, 2)],
     [T |-> Rat(4000, 1), P_avg |-> Rat(5, 1),  Delta_P |-> Rat(18, 1),
      M_val |-> Rat(709, 1), mu_val |-> Rat(132, 2)],
     [T |-> Rat(2930, 1), P_avg |-> Rat(11, 1), Delta_P |-> Rat(18, 1),
      M_val |-> Rat(280, 1), mu_val |-> Rat(176, 2)] >>

NumGas == 3

Gases == {GasTab[i] : i \in 1..Min(NumGas, Len(GasTab))}

M(g)  == RMul(g.M_val, Rat(1, 3))
mu(g) == RMul(g.mu_val, Rat(1, 5))

(* np.sqrt of a positive rational, rounded down to three decimals: the     *)
(* largest s/1000 whose square is at most x.                               *)
RECURSIVE SqrtAbove(_, _)
SqrtAbove(x, k) == IF RLt(x, RMul(Rat(k, 3), Rat(k, 3))) THEN k
                   ELSE SqrtAbove(x, 2 * k)
RECURSIVE SqrtIn(_, _, _)
SqrtIn(x, lo, hi) ==
  IF hi - lo <= 1 THEN lo
  ELSE LET mid == (lo + hi) \div 2
       IN IF RLe(RMul(Rat(mid, 3), Rat(mid, 3)), x)
          THEN SqrtIn(x, mid, hi) ELSE SqrtIn(x, lo, mid)
Sqrt(x) == Rat(SqrtIn(x, 0, SqrtAbove(x, 1)), 3)

(* v_avg = np.sqrt(8 * R_gas * T / (np.pi * M))                            *)
MeanSpeed(g) == Sqrt(RDiv(RMul(RMul(RInt(8), R_gas), g.T), RMul(Pi, M(g))))

-----------------------------------------------------------------------------
(* Core calculation functions (src/app.py 29-42).                          *)

(* What a Python call gives: a value, or an exception raised.              *)
Ret(v)     == [ok |-> TRUE, v |-> v]
Raise(e)   == [ok |-> FALSE, exc |-> e]

(* 1e-20, the value of the degenerate branch.                              *)
Sentinel == Rat(1, 20)

(* The physical branch, lines 31-42, for the gas g with mean speed v.      *)
(* L_m, D_m and the viscosity are positive here, so the divisions by       *)
(* 4 * D_m and by 128 * mu * L_m are defined, and C_mol (a product with    *)
(* the np.float64 v_avg) is positive.  C_visc is a Python float:           *)
(* 1 / C_visc raises ZeroDivisionError when C_visc is zero.                *)
Square(x) == RMul(x, x)
(* A = np.pi * r**2 with r = D_m / 2                                       *)
Area(D_m) == RMul(Pi, Square(RDiv(D_m, RInt(2))))
(* alpha = 1 / (1 + (3 * L_m) / (4 * D_m))                                 *)
alpha(L_m, D_m) == RInv(RAdd(RInt(1), RDiv(RMul(RInt(3), L_m), RMul(RInt(4), D_m))))
(* C_mol = (1/4) * A * v_avg * alpha                                       *)
C_mol(v, L_m, D_m) == RMul(RMul(RMul(Rat(25, 2), Area(D_m)), v), alpha(L_m, D_m))
(* C_visc = (np.pi * D_m**4 * P_avg) / (128 * mu * L_m)                    *)
C_visc(g, L_m, D_m) == RDiv(RMul(RMul(Pi, Square(Square(D_m))), g.P_avg),
                            RMul(RMul(RInt(128), mu(g)), L_m))
(* return 1 / ((1/C_mol) + (1/C_visc))                                     *)
Series(Cm, Cv) == IF RSign(Cv) = 0 THEN Raise("ZeroDivisionError")
                  ELSE Ret(RInv(RAdd(RInv(Cm), RInv(Cv))))
Physical(g, v, L_m, D_m) == Series(C_mol(v, L_m, D_m), C_visc(g, L_m, D_m))

(* A variant of calc_C_single whose degenerate branch returns zero.        *)
calc_C_single_zero(g, v, L_m, D_m) ==
  IF RSign(L_m) <= 0 \/ RSign(D_m) <= 0 THEN Ret(RZero)
  ELSE Physical(g, v, L_m, D_m)

calc_C_single_in(g, v, L_m, D_m) ==
  IF RSign(L_m) <= 0 \/ RSign(D_m) <= 0 THEN Ret(Sentinel)
  ELSE Physical(g, v, L_m, D_m)

(* calc_C_single(L_m, D_m) under the globals of the current run.           *)
calc_C_single(L_m, D_m) == calc_C_single_in(gas, v_avg, L_m, D_m)

-----------------------------------------------------------------------------
(* Integer parts (Python's int() and round()).                             *)

(* The largest t in lo..hi-1 with (acc + t*unit) * d <= n.                 *)
RECURSIVE DigitIn(_, _, _, _, _, _)
DigitIn(n, d, acc, unit, lo, hi) ==
  IF hi - lo <= 1 THEN lo
  ELSE LET mid == (lo + hi) \div 2
       IN IF BCmp(BMul(BAdd(acc, BMul(<<mid>>, unit)), d), n) <= 0
          THEN DigitIn(n, d, acc, unit, mid, hi)
          ELSE DigitIn(n, d, acc, unit, lo, mid)

(* Long division, one limb of the quotient at a time from place j down.    *)
RECURSIVE QuotFrom(_, _, _, _)
QuotPlace(n, d, acc, unit) == BAdd(acc, BMul(<<DigitIn(n, d, acc, unit, 0, Base)>>, unit))
QuotNext(n, d, next, j) == IF Len(next) > 0 THEN QuotFrom(n, d, next, j - 1) ELSE next
QuotFrom(n, d, acc, j) ==
  IF j = 0 THEN acc
  ELSE QuotNext(n, d, QuotPlace(n, d, acc, [i \in 1..j |-> IF i = j THEN 1 ELSE 0]), j)

(* floor(n / d) for naturals n and d > 0.                                  *)
BFloorDiv(n, d) ==
  IF Len(n) < Len(d) THEN <<0>> ELSE QuotFrom(n, d, <<0>>, Len(n) - Len(d) + 1)

(* |x| as a quotient of two naturals.                                      *)
Num(x) == Shift(x.n, Max(-x.e, 0))
Den(x) == Shift(x.d, Max(x.e, 0))

IsInt(x) == x.d = <<1>> /\ x.e <= 0

(* int(x): truncation toward zero.                                         *)
PyInt(x) == IF IsInt(x) THEN x ELSE Canon(x.neg, BFloorDiv(Num(x), Den(x)), <<1>>, 0)

(* round(x): to the nearest integer, a tie to the even one.                *)
HalfUp(q, c) == IF c > 0 \/ (c = 0 /\ q[1] % 2 = 1) THEN BAdd(q, <<1>>) ELSE q
Nearest(n, d, q) == HalfUp(q, BCmp(BMul(<<2>>, BSub(n, BMul(q, d))), d))
PyRound(x) == Canon(x.neg, Nearest(Num(x), Den(x), BFloorDiv(Num(x), Den(x))), <<1>>, 0)

-----------------------------------------------------------------------------
(* generate_report (src/app.py 44-79).                                     *)

(* 10^k for an integer k.                                                  *)
Pow10(k) == Canon(FALSE, <<IF k % 3 = 0 THEN 1 ELSE IF k % 3 = 1 THEN 10 ELSE 100>>,
                  <<1>>, -(k \div 3))

(* The decimal exponent of x > 0: the k with 10^k <= x < 10^(k+1), which   *)
(* is at most 3 * (Len(x.n) - Len(x.d) - x.e) + 2.                         *)
RECURSIVE ExpFrom(_, _)
ExpFrom(x, k) == IF RLe(Pow10(k), x) THEN k ELSE ExpFrom(x, k - 1)
Exp10(x) == ExpFrom(x, 3 * (Len(x.n) - Len(x.d) - x.e) + 2)

(* x rounded to a multiple of 10^(-s), a tie to the even one.              *)
Scaled(x, s) == RMul(PyRound(RMul(x, Pow10(s))), Pow10(-s))

(* The number that f"{x:.pe}" and f"{x:.pf}" write: x to p + 1 significant *)
(* digits, and x to p decimals.  (The text of a negative number that       *)
(* rounds to zero, "-0.00", is not told apart from "0.00".)                *)
FmtE(x, p) == IF RSign(x) = 0 THEN RZero ELSE Scaled(x, p - Exp10(RAbs(x)))
FmtF(x, p) == Scaled(x, p)

(* A variant of the residence time that divides whenever Q is not zero.    *)
Res_Time_ms_nonzero(V_total, Q) ==
  IF RSign(Q) # 0 THEN RMul(RDiv(RMul(gas.P_avg, V_total), Q), RInt(1000))
  ELSE RInt(0)

(* Lines 60-66.                                                            *)
Res_Time_ms(V_total, Q) ==
  IF RSign(Q) > 0 THEN RMul(RDiv(RMul(gas.P_avg, V_total), Q), RInt(1000))
  ELSE RInt(0)

(* The dictionary of the eight parameters, lines 68-78.                    *)
data(L_mm, D_mm, N, V_total, C_total, Q) ==
  [Length |-> L_mm, Diameter |-> D_mm, Numbers |-> PyInt(N),
   Volume |-> FmtE(V_total, 2), C_trans |-> FmtE(C_total, 4),
   Flux |-> FmtE(Q, 2), ResTime |-> FmtF(Res_Time_ms(V_total, Q), 2),
   Overall |-> FmtF(C_total, 5)]

(* Lines 52-58 once C_single is there: C_total, V_total and Q.             *)
Totals(L_mm, D_mm, N, V_total, C_total) ==
  Ret(data(L_mm, D_mm, N, V_total, C_total, RMul(C_total, gas.Delta_P)))
(* A variant of the totals that leaves the hole count out of C_total.      *)
Built_single(L_mm, D_mm, N, L_m, D_m, C_single) ==
  IF ~C_single.ok THEN C_single
  ELSE Totals(L_mm, D_mm, N, RMul(RMul(N, Area(D_m)), L_m), C_single.v)
Built(L_mm, D_mm, N, L_m, D_m, C_single) ==
  IF ~C_single.ok THEN C_single
  ELSE Totals(L_mm, D_mm, N, RMul(RMul(N, Area(D_m)), L_m), RMul(C_single.v, N))
InSI(L_mm, D_mm, N, L_m, D_m) ==
  Built(L_mm, D_mm, N, L_m, D_m, calc_C_single(L_m, D_m))

(* The DataFrame's one row, or the exception calc_C_single raised.         *)
generate_report(L_mm, D_mm, N) ==
  InSI(L_mm, D_mm, N, RMul(L_mm, Rat(1, 3)), RMul(D_mm, Rat(1, 3)))

-----------------------------------------------------------------------------
(* The inverse solves (src/app.py 126-160).                                *)

(* func of tab 3 (solve = "D": calc_C_single(L3*1e-3, D_guess) -           *)
(* target_single) and of tab 4 (solve = "L": calc_C_single(L_guess,        *)
(* D4*1e-3) - target_single); q is the closure's captured values.          *)
Minus(c, target_single) == IF c.ok THEN Ret(RSub(c.v, target_single)) ELSE c
func(q, x) ==
  Minus(calc_C_single(IF q.solve = "D" THEN q.fixed ELSE x,
                      IF q.solve = "D" THEN x ELSE q.fixed), q.target_single)

(* scipy.optimize.brentq's default tolerances: xtol = 2e-12 and            *)
(* rtol = 4 * machine epsilon = 8.881784197001252e-16.                     *)
(* A variant of the absolute tolerance: 1e-4.                              *)
xtol_loose == Rat(1, 4)
xtol == Rat(2, 12)
rtol == [neg |-> FALSE, n |-> <<200, 125, 700, 419, 178, 888>>, d |-> <<1>>, e |-> 11]

(* brentq keeps a bracket with a sign change and narrows it until it is    *)
(* shorter than xtol + rtol * |x|, then returns the end x at which |f| is  *)
(* smaller; it returns at once a point where f is exactly zero.  The       *)
(* iterates themselves are not modelled: the bracket [lo, hi] is halved    *)
(* on the grid of multiples of Base^(-GridExp), and both ends of the       *)
(* final bracket are possible results.  lo and hi are grid indices and sa  *)
(* is the sign of f at lo.                                                 *)
GridExp == 5
OnGrid(m) == Canon(FALSE, m, <<1>>, GridExp)
(* The grid index of a point of the grid.                                  *)
IndexOf(x) == Shift(x.n, GridExp - x.e)
(* floor(m / 2) = floor(m * (Base/2) / Base)                               *)
Half(m) == LET h == BMul(m, <<Base \div 2>>)
           IN IF Len(h) = 1 THEN <<0>> ELSE Tail(h)

(* One halving of the bracket br = [lo, hi, sa]: the half that keeps the   *)
(* sign change, or the midpoint where f is zero, or func's exception.      *)
Keep(br, mid, fm) ==
  IF ~fm.ok THEN [st |-> "raised", ret |-> fm]
  ELSE IF RSign(fm.v) = 0
       THEN [st |-> "zero", ret |-> [ok |-> TRUE, roots |-> {OnGrid(mid)}]]
  ELSE IF RSign(fm.v) = br.sa
       THEN [st |-> "open", lo |-> mid, hi |-> br.hi, sa |-> br.sa]
  ELSE [st |-> "open", lo |-> br.lo, hi |-> mid, sa |-> br.sa]
HalveAt(q, br, mid) == Keep(br, mid, func(q, OnGrid(mid)))
Halve(q, br) == HalveAt(q, br, Half(BAdd(br.lo, br.hi)))

Converged(br) ==
  RLt(RSub(OnGrid(br.hi), OnGrid(br.lo)), RAdd(xtol, RMul(rtol, OnGrid(br.lo))))

(* Up to k halvings.                                                       *)
RECURSIVE Halvings(_, _, _)
HalvingsOn(q, nb, k) == IF nb.st = "open" THEN Halvings(q, nb, k - 1) ELSE nb
Halvings(q, br, k) ==
  IF k = 0 \/ br.st # "open" THEN br
  ELSE IF Converged(br) THEN br
  ELSE HalvingsOn(q, Halve(q, br), k)

RECURSIVE Narrow(_, _)
NarrowOn(q, nb) == IF nb.st = "open" THEN Narrow(q, nb) ELSE nb.ret
Narrow(q, br) ==
  IF br.st # "open" THEN br.ret
  ELSE IF Converged(br) THEN [ok |-> TRUE, roots |-> {OnGrid(br.lo), OnGrid(br.hi)}]
  ELSE NarrowOn(q, Halvings(q, br, 8))

(* A variant of brentq that does not ask for a sign change.                *)
Bracket_unchecked(q, a, b, fa, fb) ==
  IF ~fa.ok THEN fa
  ELSE IF ~fb.ok THEN fb
  ELSE IF RSign(fa.v) = 0 THEN [ok |-> TRUE, roots |-> {a}]
  ELSE IF RSign(fb.v) = 0 THEN [ok |-> TRUE, roots |-> {b}]
  ELSE Narrow(q, [st |-> "open", lo |-> IndexOf(a), hi |-> IndexOf(b),
                  sa |-> RSign(fa.v)])

(* brentq with f(a) and f(b) computed.                                     *)
Bracket(q, a, b, fa, fb) ==
  IF ~fa.ok THEN fa
  ELSE IF ~fb.ok THEN fb
  ELSE IF RSign(fa.v) * RSign(fb.v) > 0 THEN Raise("ValueError")
  ELSE IF RSign(fa.v) = 0 THEN [ok |-> TRUE, roots |-> {a}]
  ELSE IF RSign(fb.v) = 0 THEN [ok |-> TRUE, roots |-> {b}]
  ELSE Narrow(q, [st |-> "open", lo |-> IndexOf(a), hi |-> IndexOf(b),
                  sa |-> RSign(fa.v)])

(* brentq(func, a, b): the possible results, or the exception raised:      *)
(* func's own, or ValueError when f(a) and f(b) have the same sign.        *)
brentq(q, a, b) == Bracket(q, a, b, func(q, a), func(q, b))

-----------------------------------------------------------------------------
(* The widgets of the four tabs and what a run of the script shows.        *)

(* Values for the number inputs, in the widgets' units: lengths and       *)
(* diameters in mm (floats), hole counts (ints), target conductances in    *)
(* m^3/s (floats).  The widgets set no minimum, so zero and negative       *)
(* values can be entered.  10.0, 2.5, 3.0, 2200, 1000 and 0.0157 are       *)
(* widget defaults.                                                        *)
LenTab    == << Rat(100, 1), Rat(0, 0), Rat(10, 1), Rat(-50, 1) >>
DiaTab    == << Rat(25, 1), Rat(0, 0), Rat(500, 1), Rat(30, 1) >>
CountTab  == << RInt(2200), RInt(0), RInt(-1), RInt(1000) >>
TargetTab == << Rat(157, 4), RInt(1000), RInt(0) >>

NumLen    == 3
NumDia    == 3
NumCount  == 3
NumTarget == 2

Lens    == {LenTab[i] : i \in 1..Min(NumLen, Len(LenTab))}
Dias    == {DiaTab[i] : i \in 1..Min(NumDia, Len(DiaTab))}
Counts  == {CountTab[i] : i \in 1..Min(NumCount, Len(CountTab))}
Targets == {TargetTab[i] : i \in 1..Min(NumTarget, Len(TargetTab))}

(* The search brackets of the two solves, in metres.                       *)
DiaLow  == Rat(1, 5)
DiaHigh == Rat(50, 3)
LenLow  == Rat(1, 4)
LenHigh == Rat(10, 1)

Idle         == [kind |-> "idle"]
Report(df, m) == [kind |-> "report", df |-> df, msg |-> m]
NoSolution   == [kind |-> "error", msg |-> "No solution found."]
Uncaught(e)  == [kind |-> "exception", exc |-> e]

(* Tab 1, "Calculate All Parameters" (lines 97-100).                       *)
Show1(df) == IF df.ok THEN {Report(df.v, df.v.Overall)} ELSE {Uncaught(df.exc)}
Handler1(L1, D1, N1) == Show1(generate_report(L1, D1, N1))

(* Tab 2, "Calculate & Show Table" (lines 110-116).                        *)
Show2(N2, df) == IF df.ok THEN {Report(df.v, N2)} ELSE {Uncaught(df.exc)}
Table2(L2, D2, N2) == Show2(N2, generate_report(L2, D2, N2))
Holes(L2, D2, C_target2, C_single) ==
  IF ~C_single.ok THEN {Uncaught(C_single.exc)}
  ELSE Table2(L2, D2, PyInt(PyRound(RDiv(C_target2, C_single.v))))
Handler2(L2, D2, C_target2) ==
  Holes(L2, D2, C_target2, calc_C_single(RMul(L2, Rat(1, 3)), RMul(D2, Rat(1, 3))))

(* The try block of tabs 3 and 4: lines 131-136 and 153-158.  q is what    *)
(* func captures, [a, b] the bracket; the bare except turns every          *)
(* exception into the "No solution found." message.                        *)
ShowSolved(sol, df) == IF df.ok THEN Report(df.v, FmtF(sol, 4)) ELSE NoSolution
TableSolved(q, N, sol) ==
  ShowSolved(sol, generate_report(IF q.solve = "D" THEN q.widget ELSE sol,
                                  IF q.solve = "D" THEN sol ELSE q.widget, N))
Solved(q, N, ans) ==
  IF ~ans.ok THEN {NoSolution}
  ELSE {TableSolved(q, N, RMul(ans_m, RInt(1000))) : ans_m \in ans.roots}
TrySolve(q, a, b, N) == Solved(q, N, brentq(q, a, b))

(* Tab 3, "Calculate & Show Table" (lines 126-138).  N3 is an int and      *)
(* C_target3 a float: the division on line 127, outside the try, raises    *)
(* ZeroDivisionError for N3 = 0.                                           *)
Handler3(L3, N3, C_target3) ==
  IF RSign(N3) = 0 THEN {Uncaught("ZeroDivisionError")}
  ELSE TrySolve([solve |-> "D", widget |-> L3, fixed |-> RMul(L3, Rat(1, 3)),
                 target_single |-> RDiv(C_target3, N3)], DiaLow, DiaHigh, N3)

(* Tab 4, "Calculate & Show Table" (lines 148-160).                        *)
Handler4(D4, N4, C_target4) ==
  IF RSign(N4) = 0 THEN {Uncaught("ZeroDivisionError")}
  ELSE TrySolve([solve |-> "L", widget |-> D4, fixed |-> RMul(D4, Rat(1, 3)),
                 target_single |-> RDiv(C_target4, N4)], LenLow, LenHigh, N4)

-----------------------------------------------------------------------------
(* The application.  Changing a widget reruns the script with no button    *)
(* pressed, so nothing is shown; pressing a tab's button reruns it with    *)
(* that button's handler.  form holds the inputs of the tab the user is    *)
(* working in; a handler reads no other tab's widgets.  A second press     *)
(* without a change in between computes the same again, so the press is    *)
(* taken from the idle display only.                                       *)

NoCall == [st |-> "none"]

Init ==
  /\ gas = GasTab[1]
  /\ v_avg = MeanSpeed(gas)
  /\ tab = 1
  /\ form = [L |-> LenTab[1], D |-> DiaTab[1], N |-> CountTab[1]]
  /\ out = Idle
  /\ call = NoCall
  /\ prev = NoCall

(* The sidebar's inputs change (lines 14-24).                              *)
Configure ==
  \E g \in Gases :
    /\ g # gas
    /\ gas' = g
    /\ v_avg' = MeanSpeed(g)
    /\ out' = Idle
    /\ UNCHANGED <<tab, form, call, prev>>

Edit1 ==
  \E L \in Lens, D \in Dias, N \in Counts :
    /\ tab' = 1
    /\ form' = [L |-> L, D |-> D, N |-> N]
    /\ out' = Idle
    /\ UNCHANGED <<gas, v_avg, call, prev>>

Edit2 ==
  \E L \in Lens, D \in Dias, Ct \in Targets :
    /\ tab' = 2
    /\ form' = [L |-> L, D |-> D, Ct |-> Ct]
    /\ out' = Idle
    /\ UNCHANGED <<gas, v_avg, call, prev>>

Edit3 ==
  \E L \in Lens, N \in Counts, Ct \in Targets :
    /\ tab' = 3
    /\ form' = [L |-> L, N |-> N, Ct |-> Ct]
    /\ out' = Idle
    /\ UNCHANGED <<gas, v_avg, call, prev>>

Edit4 ==
  \E D \in Dias, N \in Counts, Ct \in Targets :
    /\ tab' = 4
    /\ form' = [D |-> D, N |-> N, Ct |-> Ct]
    /\ out' = Idle
    /\ UNCHANGED <<gas, v_avg, call, prev>>

Press1 ==
  /\ tab = 1 /\ out = Idle
  /\ out' \in Handler1(form.L, form.D, form.N)
  /\ UNCHANGED <<gas, v_avg, tab, form, call, prev>>

Press2 ==
  /\ tab = 2 /\ out = Idle
  /\ out' \in Handler2(form.L, form.D, form.Ct)
  /\ UNCHANGED <<gas, v_avg, tab, form, call, prev>>

Press3 ==
  /\ tab = 3 /\ out = Idle
  /\ out' \in Handler3(form.L, form.N, form.Ct)
  /\ UNCHANGED <<gas, v_avg, tab, form, call, prev>>

Press4 ==
  /\ tab = 4 /\ out = Idle
  /\ out' \in Handler4(form.D, form.N, form.Ct)
  /\ UNCHANGED <<gas, v_avg, tab, form, call, prev>>

Next == \/ Configure
        \/ Edit1 \/ Edit2 \/ Edit3 \/ Edit4
        \/ Press1 \/ Press2 \/ Press3 \/ Press4

Spec == Init /\ [][Next]_vars

-----------------------------------------------------------------------------
(* calc_C_single on its own: calls with arguments in metres, under one     *)
(* gas state.  prev is the call before the latest one.                     *)

LenArgs == {RMul(L, Rat(1, 3)) : L \in Lens} \cup {LenLow, LenHigh}
DiaArgs == {RMul(D, Rat(1, 3)) : D \in Dias} \cup {DiaLow, DiaHigh}

InitCalc ==
  /\ gas \in Gases
  /\ v_avg = MeanSpeed(gas)
  /\ tab = 1
  /\ form = [L |-> LenTab[1], D |-> DiaTab[1], N |-> CountTab[1]]
  /\ out = Idle
  /\ call = NoCall
  /\ prev = NoCall

CallCalc ==
  \E L_m \in LenArgs, D_m \in DiaArgs :
    /\ call.st # "called"
    /\ call' = [st |-> "called", L_m |-> L_m, D_m |-> D_m]
    /\ prev' = call
    /\ UNCHANGED <<gas, v_avg, tab, form, out>>

ReturnCalc ==
  /\ call.st = "called"
  /\ call' = [st |-> "returned", L_m |-> call.L_m, D_m |-> call.D_m,
              ret |-> calc_C_single(call.L_m, call.D_m)]
  /\ UNCHANGED <<gas, v_avg, tab, form, out, prev>>

NextCalc == CallCalc \/ ReturnCalc

SpecCalc == InitCalc /\ [][NextCalc]_vars

-----------------------------------------------------------------------------
(* What the properties below speak of.                                     *)

Milli == Rat(1, 3)
Shows(k) == out.kind = k

(* Total conductance, volume and throughput of the record df's (L, D, N)   *)
(* as the report's formulas give them.                                     *)
CSingleOf(df) == calc_C_single(RMul(df.Length, Milli), RMul(df.Diameter, Milli))
CTotalOf(df)  == RMul(CSingleOf(df).v, df.Numbers)
VolumeOf(df)  ==
  RMul(RMul(df.Numbers, RMul(Pi, Square(RDiv(RMul(df.Diameter, Milli), RInt(2))))),
       RMul(df.Length, Milli))
FluxOf(df)    == RMul(CTotalOf(df), gas.Delta_P)

(* The inverse solve of the tab in focus (3: diameter, 4: thickness): its  *)
(* bracket, and f at a point x of it.                                      *)
BracketLow  == IF tab = 3 THEN DiaLow ELSE LenLow
BracketHigh == IF tab = 3 THEN DiaHigh ELSE LenHigh
CAt(x) == IF tab = 3 THEN calc_C_single(RMul(form.L, Milli), x)
          ELSE calc_C_single(x, RMul(form.D, Milli))
FSign(x) == RSign(RSub(CAt(x).v, RDiv(form.Ct, form.N)))
(* f is defined at both ends of the bracket and has the same strict sign   *)
(* there.                                                                  *)
NoSignChange ==
  /\ RSign(form.N) # 0
  /\ CAt(BracketLow).ok /\ CAt(BracketHigh).ok
  /\ FSign(BracketLow) * FSign(BracketHigh) > 0
Solving == tab \in {3, 4} /\ out # Idle
ValidInputs ==
  /\ RSign(form.N) > 0
  /\ tab = 3 => RSign(form.L) > 0
  /\ tab = 4 => RSign(form.D) > 0

-----------------------------------------------------------------------------
(* C1: when f has no sign change between the ends of the bracket, the      *)
(* diameter solve and the thickness solve end in "No solution found.",     *)
(* with no solved value and no record shown.                               *)
C1_NoSignChangeNoSolution == (Solving /\ NoSignChange) => out = NoSolution
C1_Witness == tab = 3 /\ out = NoSolution /\ NoSignChange /\ ValidInputs

(* C2: for every allowed gas state and every L > 0, D > 0, calc_C_single   *)
(* returns (does not raise) a strictly positive conductance.               *)
C2_PositiveFinite ==
  (call.st = "returned" /\ RSign(call.L_m) > 0 /\ RSign(call.D_m) > 0)
    => (call.ret.ok /\ RSign(call.ret.v) > 0)

(* C3: for L <= 0 or D <= 0, under any gas state, calc_C_single returns    *)
(* exactly 1e-20 (10 / 1000^7) as a normal value.                          *)
C3_Sentinel ==
  (call.st = "returned" /\ (RSign(call.L_m) <= 0 \/ RSign(call.D_m) <= 0))
    => call.ret = [ok |-> TRUE, v |-> [neg |-> FALSE, n |-> <<10>>, d |-> <<1>>, e |-> 7]]
C3_Witness ==
  /\ call.st = "returned" /\ RSign(call.L_m) = 0 /\ RSign(call.D_m) > 0
  /\ RSign(gas.P_avg) = 0

(* C4: on the physical branch, under any one allowed gas state, two calls  *)
(* of calc_C_single both return, and the conductance does not grow with L  *)
(* (D fixed) and does not shrink with D (L fixed).                         *)
BothPhysical ==
  /\ prev.st = "returned" /\ call.st = "returned"
  /\ RSign(prev.L_m) > 0 /\ RSign(prev.D_m) > 0
  /\ RSign(call.L_m) > 0 /\ RSign(call.D_m) > 0
Ordered(a, b) ==
  /\ (a.D_m = b.D_m /\ RLt(a.L_m, b.L_m)) => RLe(b.ret.v, a.ret.v)
  /\ (a.L_m = b.L_m /\ RLt(a.D_m, b.D_m)) => RLe(a.ret.v, b.ret.v)
C4_Monotone ==
  BothPhysical => (prev.ret.ok /\ call.ret.ok /\ Ordered(prev, call))
(* The same where both calls return a value.                               *)
MonotoneWhereDefined ==
  (BothPhysical /\ prev.ret.ok /\ call.ret.ok) => Ordered(prev, call)

(* C5: when the diameter solve or the thickness solve succeeds, the total  *)
(* conductance generate_report's formula gives for the record's (L, D, N)  *)
(* is within 1e-5 relative of the target, and the solved value lies in     *)
(* the search bracket.                                                     *)
SolvedValue == IF tab = 3 THEN out.df.Diameter ELSE out.df.Length
C5_RoundTrip ==
  (tab \in {3, 4} /\ Shows("report")) =>
    /\ RLe(RAbs(RSub(CTotalOf(out.df), form.Ct)), RMul(Rat(1, 5), RAbs(form.Ct)))
    /\ RLe(RMul(BracketLow, RInt(1000)), SolvedValue)
    /\ RLe(SolvedValue, RMul(BracketHigh, RInt(1000)))
C5_Witness == tab = 3 /\ Shows("report") /\ RSign(form.Ct) > 0

(* C6: the hole-count tab shows the nearest integer to                     *)
(* N_required = target / calc_C_single(L, D) and also the exact            *)
(* N_required.                                                             *)
NRequired == RDiv(form.Ct, calc_C_single(RMul(form.L, Milli), RMul(form.D, Milli)).v)
ShownValues == {out.msg} \cup {out.df[f] : f \in DOMAIN out.df}
C6_ExactCountShown ==
  (tab = 2 /\ Shows("report")) =>
    /\ REq(out.msg, PyRound(NRequired))
    /\ \E x \in ShownValues : REq(x, NRequired)

(* C7: in every record, the residence time is (as written to two           *)
(* decimals) P_avg * V_total / Q * 1000 when Q = C_total * Delta_P > 0     *)
(* and 0 otherwise; it is 0 whenever Delta_P = 0.                          *)
C7_ResidenceTime ==
  Shows("report") =>
    /\ REq(out.df.ResTime,
           IF RSign(FluxOf(out.df)) > 0
           THEN FmtF(RMul(RDiv(RMul(gas.P_avg, VolumeOf(out.df)), FluxOf(out.df)),
                          RInt(1000)), 2)
           ELSE RZero)
    /\ RSign(gas.Delta_P) = 0 => out.df.ResTime = RZero
C7_Witness == Shows("report") /\ RSign(gas.Delta_P) = 0 /\ RSign(out.df.Numbers) > 0

(* C8: in all four tabs, the record shown has the same eight fields, its   *)
(* (L, D, N) carries the tab's inputs, and its total conductance and       *)
(* volume are (as written) calc_C_single(L, D) * N and                     *)
(* N * pi * (D/2)^2 * L for that triple.                                   *)
FromInputs(df) ==
  /\ tab \in {1, 2, 3} => df.Length = form.L
  /\ tab \in {1, 2, 4} => df.Diameter = form.D
  /\ tab \in {1, 3, 4} => df.Numbers = form.N
  /\ tab = 2 => df.Numbers = out.msg
C8_ReportFromTriple ==
  Shows("report") =>
    /\ DOMAIN out.df = {"Length", "Diameter", "Numbers", "Volume", "C_trans",
                        "Flux", "ResTime", "Overall"}
    /\ FromInputs(out.df)
    /\ REq(out.df.C_trans, FmtE(CTotalOf(out.df), 4))
    /\ REq(out.df.Overall, FmtF(CTotalOf(out.df), 5))
    /\ REq(out.df.Volume, FmtE(VolumeOf(out.df), 2))
C8_Witness == tab = 4 /\ Shows("report") /\ RSign(out.df.C_trans) > 0

(* C9: the hole-count tab, given a target > 0 and L > 0, D > 0, shows and  *)
(* puts in the record a hole count of at least 1.                          *)
C9_PositiveCount ==
  (tab = 2 /\ Shows("report") /\ RSign(form.Ct) > 0
     /\ RSign(form.L) > 0 /\ RSign(form.D) > 0)
    => (RLe(RInt(1), out.df.Numbers) /\ RLe(RInt(1), out.msg))

(* C10: the two solves show "No solution found." only when the inputs are  *)
(* valid (L or D > 0, N > 0), f was evaluated at both ends of the bracket  *)
(* and has no sign change.                                                 *)
C10_NoSolutionMeansNoSignChange ==
  (Solving /\ out = NoSolution) => (ValidInputs /\ NoSignChange)

====
